---- MODULE Spec2Model ----
(***************************************************************************)
(* English number normalizer (src/normalizer.py).                          *)
(*                                                                         *)
(* A text is a sequence of characters, each character a one-character      *)
(* string.  Characters without a usable TLA+ string literal are written    *)
(* symbolically: "VT", "FF" and "GRAVE" (vertical tab, form feed and the   *)
(* grave accent, all in string.printable), "U+0000" (a non-printable       *)
(* character) and "U+00E9" (a non-ASCII character).                        *)
(*                                                                         *)
(* A weighted transducer is the weighted relation it denotes: F(s) is the  *)
(* set of <<output, weight>> pairs the transducer F gives for exactly the  *)
(* input s (tropical semiring: weights add along a path, 0 when unset).    *)
(***************************************************************************)
EXTENDS Integers, Sequences, FiniteSets, TLC

VARIABLES normalizer_fst, pc, text, input_fst, lattice, shortest_path,
          result, round, previous, tie_break

vars == <<normalizer_fst, pc, text, input_fst, lattice, shortest_path,
          result, round, previous, tie_break>>

\* ------------------------------------------------------------------ bounds
NumCallers == 2
MaxRounds == 2
MaxPadLen == 4
MaxTextLen == 3

\* The range of integers the grammar is written for (evaluate.py).
MaxVal == 1000

Callers == 1..NumCallers

\* ------------------------------------------------------- FST combinators
\* pynini.cross(i, o) / pynini.accep(i, weight=w): one string pair.
cross(i, o, s) == IF s = i THEN {<<o, 0>>} ELSE {}

accep(i, w, s) == IF s = i THEN {<<i, w>>} ELSE {}

\* pynini.string_map(pairs): union of cross(i, o) over the listed pairs.
string_map(pairs, s) == {<<p[2], 0>> : p \in {q \in pairs : q[1] = s}}

\* The ways of cutting s in two.
splits(s) == {<<SubSeq(s, 1, k), SubSeq(s, k + 1, Len(s))>> : k \in 0..Len(s)}

\* A + B: the input is cut in two at any point, A reads the first part and
\* B the second; outputs concatenate and weights add.  The argument holds,
\* for each cut, what A gives for the first part and B for the second
\* (where A gives nothing the cut contributes nothing, and the callers
\* then leave B unevaluated).
concat(parts) ==
    UNION {{<<a[1] \o b[1], a[2] + b[2]>> : a \in pr[1], b \in pr[2]} :
           pr \in parts}

\* ------------------------------------------ 1. vocabulary (weight 0)
digit_map ==
    { <<<<"1">>, <<"o","n","e">>>>,
      <<<<"2">>, <<"t","w","o">>>>,
      <<<<"3">>, <<"t","h","r","e","e">>>>,
      <<<<"4">>, <<"f","o","u","r">>>>,
      <<<<"5">>, <<"f","i","v","e">>>>,
      <<<<"6">>, <<"s","i","x">>>>,
      <<<<"7">>, <<"s","e","v","e","n">>>>,
      <<<<"8">>, <<"e","i","g","h","t">>>>,
      <<<<"9">>, <<"n","i","n","e">>>> }

teens_map ==
    { <<<<"1","0">>, <<"t","e","n">>>>,
      <<<<"1","1">>, <<"e","l","e","v","e","n">>>>,
      <<<<"1","2">>, <<"t","w","e","l","v","e">>>>,
      <<<<"1","3">>, <<"t","h","i","r","t","e","e","n">>>>,
      <<<<"1","4">>, <<"f","o","u","r","t","e","e","n">>>>,
      <<<<"1","5">>, <<"f","i","f","t","e","e","n">>>>,
      <<<<"1","6">>, <<"s","i","x","t","e","e","n">>>>,
      <<<<"1","7">>, <<"s","e","v","e","n","t","e","e","n">>>>,
      <<<<"1","8">>, <<"e","i","g","h","t","e","e","n">>>>,
      <<<<"1","9">>, <<"n","i","n","e","t","e","e","n">>>> }

tens_map ==
    { <<<<"2">>, <<"t","w","e","n","t","y">>>>,
      <<<<"3">>, <<"t","h","i","r","t","y">>>>,
      <<<<"4">>, <<"f","o","r","t","y">>>>,
      <<<<"5">>, <<"f","i","f","t","y">>>>,
      <<<<"6">>, <<"s","i","x","t","y">>>>,
      <<<<"7">>, <<"s","e","v","e","n","t","y">>>>,
      <<<<"8">>, <<"e","i","g","h","t","y">>>>,
      <<<<"9">>, <<"n","i","n","e","t","y">>>> }

\* string.printable without the two bracket characters (line 116).
safe_printables ==
    { "0", "1", "2", "3", "4", "5", "6", "7", "8", "9", "a", "b", "c",
      "d", "e", "f", "g", "h", "i", "j", "k", "l", "m", "n", "o", "p",
      "q", "r", "s", "t", "u", "v", "w", "x", "y", "z", "A", "B", "C",
      "D", "E", "F", "G", "H", "I", "J", "K", "L", "M", "N", "O", "P",
      "Q", "R", "S", "T", "U", "V", "W", "X", "Y", "Z", "!", "\"", "#",
      "$", "%", "&", "'", "(", ")", "*", "+", ",", "-", ".", "/", ":",
      ";", "<", "=", ">", "?", "@", "\\", "^", "_", "GRAVE", "{", "|", "}",
      "~", " ", "\t", "\n", "\r", "VT", "FF" }

digits_pure(s) == string_map(digit_map, s)

zero(s) == cross(<<"0">>, <<"z","e","r","o">>, s)

teens(s) == string_map(teens_map, s)

tens(s) == string_map(tens_map, s)

\* ------------------------------------ 2. penalty for standalone digits
weight_one(s) == accep(<<>>, 1, s)

digits_penalized(s) ==
    concat({<<digits_pure(sp[1]), weight_one(sp[2])>> : sp \in splits(s)})

\* --------------------------------------- 3. composite numbers 20-99
ins_space(s) == cross(<<>>, <<" ">>, s)

tens_clean(s) ==
    concat({<<tens(sp[1]), cross(<<"0">>, <<>>, sp[2])>> : sp \in splits(s)})

tens_composite(s) ==
    concat({<<tens(sp[1]),
              IF tens(sp[1]) = {} THEN {}
              ELSE concat({<<ins_space(t[1]), digits_pure(t[2])>> :
                           t \in splits(sp[2])})>> :
            sp \in splits(s)})

numbers_20_99(s) == tens_clean(s) \cup tens_composite(s)

numbers_1_99_pure(s) == digits_pure(s) \cup teens(s) \cup numbers_20_99(s)

\* ------------------------------------------------ 4. hundreds 100-999
ins_hundred(s) == cross(<<>>, <<" ","h","u","n","d","r","e","d">>, s)

ins_hundred_and(s) ==
    cross(<<>>, <<" ","h","u","n","d","r","e","d"," ","a","n","d"," ">>, s)

hundreds_exact(s) ==
    concat({<<digits_pure(sp[1]),
              IF digits_pure(sp[1]) = {} THEN {}
              ELSE concat({<<cross(<<"0","0">>, <<>>, t[1]), ins_hundred(t[2])>> :
                           t \in splits(sp[2])})>> :
            sp \in splits(s)})

padded_digits(s) ==
    concat({<<cross(<<"0">>, <<>>, sp[1]), digits_pure(sp[2])>> : sp \in splits(s)})

remainder_100(s) == padded_digits(s) \cup numbers_1_99_pure(s)

hundreds_with_rest(s) ==
    concat({<<digits_pure(sp[1]),
              IF digits_pure(sp[1]) = {} THEN {}
              ELSE concat({<<ins_hundred_and(t[1]),
                             IF ins_hundred_and(t[1]) = {} THEN {}
                             ELSE remainder_100(t[2])>> :
                           t \in splits(sp[2])})>> :
            sp \in splits(s)})

hundreds(s) == hundreds_exact(s) \cup hundreds_with_rest(s)

\* ------------------------------------- 5. digit sequences ("004")
zero_word(s) == cross(<<"0">>, <<" ","z","e","r","o">>, s)

any_digit_word(s) == zero_word(s) \cup digits_pure(s)

\* pynini.cross("", " ") + any_digit_word
spaced_digit_word(s) ==
    concat({<<cross(<<>>, <<" ">>, sp[1]), any_digit_word(sp[2])>> :
            sp \in splits(s)})

\* (pynini.cross("", " ") + any_digit_word).closure(1): one or more
\* repetitions.
RECURSIVE spaced_digit_words(_)
spaced_digit_words(s) ==
    spaced_digit_word(s) \cup
    concat({<<spaced_digit_word(sp[1]),
              IF spaced_digit_word(sp[1]) = {} THEN {}
              ELSE spaced_digit_words(sp[2])>> :
            sp \in {t \in splits(s) : t[1] # <<>> /\ t[2] # <<>>}})

seq_digits(s) ==
    concat({<<zero_word(sp[1]),
              IF zero_word(sp[1]) = {} THEN {} ELSE spaced_digit_words(sp[2])>> :
            sp \in splits(s)})

\* ------------------------------------------------------ 6. final union
\* thousand with the digit left in the output.
thousand_keeps_digit(s) ==
    cross(<<"1","0","0","0">>, <<"1"," ","t","h","o","u","s","a","n","d">>, s)

thousand(s) ==
    cross(<<"1","0","0","0">>,
          <<"o","n","e"," ","t","h","o","u","s","a","n","d">>, s)

minus(s) == cross(<<"-">>, <<"m","i","n","u","s"," ">>, s)

positive_cardinals(s) ==
    thousand(s) \cup hundreds(s) \cup seq_digits(s) \cup numbers_20_99(s)
        \cup teens(s) \cup zero(s) \cup digits_penalized(s)

final_grammar(s) ==
    positive_cardinals(s)
        \cup concat({<<minus(sp[1]),
                       IF minus(sp[1]) = {} THEN {} ELSE positive_cardinals(sp[2])>> :
                     sp \in splits(s)})

\* ------------------------------------------- 7. context (sigma star)
\* The characters the input sides of the rules are made of.
rule_alphabet == {"-", "0", "1", "2", "3", "4", "5", "6", "7", "8", "9"}

\* The lengths of the prefixes of s that final_grammar accepts.  Only a
\* prefix made of rule_alphabet characters can be one.
match_ends(s) ==
    {k \in 1..Len(s) :
        /\ \A j \in 1..k : s[j] \in rule_alphabet
        /\ final_grammar(SubSeq(s, 1, k)) # {}}

\* pynini.cdrewrite(tau, "", "", sigma_star), left to right, obligatory
\* (the defaults).  Scanning the input from the left: where no match of
\* tau begins, the character is copied at weight 0; where a match begins,
\* some match beginning there (of any length) is replaced by one of its
\* outputs, and scanning resumes after it.  The value is the set of
\* <<output, total weight>> of all such paths.
RECURSIVE rewrite_paths(_)
rewrite_paths(s) ==
    IF s = <<>> THEN {<<<<>>, 0>>}
    ELSE IF Head(s) \notin rule_alphabet \/ match_ends(s) = {}
    THEN {<<<<Head(s)>> \o r[1], r[2]>> : r \in rewrite_paths(Tail(s))}
    ELSE UNION {{<<e[1] \o r[1], e[2] + r[2]>> :
                     e \in final_grammar(SubSeq(s, 1, k)),
                     r \in rewrite_paths(SubSeq(s, k + 1, Len(s)))} :
                k \in match_ends(s)}

\* The value _build_complete_normalizer returns: the rewrite transducer,
\* given by the rule it was compiled from, its (empty) contexts and the
\* alphabet of sigma_star.
build_complete_normalizer ==
    [tau |-> "final_grammar", lambda |-> <<>>, rho |-> <<>>,
     sigma |-> safe_printables]

\* input @ fst: the paths of fst over the input string.  A rewrite
\* transducer accepts only strings over its alphabet; one without a rule
\* copies them.
compose(s, fst) ==
    IF \E i \in 1..Len(s) : s[i] \notin fst.sigma THEN {}
    ELSE IF fst.tau = "final_grammar" THEN rewrite_paths(s)
    ELSE {<<s, 0>>}

\* ----------------------------------------------------- normalize_text
\* escape that leaves a backslash of the text bare.
RECURSIVE escape_brackets_only(_)
escape_brackets_only(s) ==
    IF s = <<>> THEN <<>>
    ELSE IF Head(s) \in {"[", "]"}
         THEN <<"\\", Head(s)>> \o escape_brackets_only(Tail(s))
         ELSE <<Head(s)>> \o escape_brackets_only(Tail(s))

\* pynini.escape: a backslash before each bracket and each backslash.
RECURSIVE escape(_)
escape(s) ==
    IF s = <<>> THEN <<>>
    ELSE IF Head(s) \in {"[", "]", "\\"}
         THEN <<"\\", Head(s)>> \o escape(Tail(s))
         ELSE <<Head(s)>> \o escape(Tail(s))

\* Compilation of the escaped string into an acceptor: a backslash makes
\* the next character literal.
RECURSIVE string_compile(_)
string_compile(e) ==
    IF e = <<>> THEN <<>>
    ELSE IF Head(e) = "\\" /\ Len(e) >= 2
         THEN <<e[2]>> \o string_compile(SubSeq(e, 3, Len(e)))
         ELSE <<Head(e)>> \o string_compile(Tail(e))

\* A selection that ignores the weights.
any_weight(paths) == paths

\* The paths of least total weight in a lattice.
least_weight(paths) ==
    {p \in paths : \A q \in paths : p[2] <= q[2]}

\* A handler that lets the error through.
caught_nothing(exc) == FALSE

\* The except clauses of normalize_text: FstOpError, then Exception.
caught(exc) == exc \in {"FstOpError", "Exception"}

Escape(c) ==
    /\ pc[c] = "call"
    /\ input_fst' = [input_fst EXCEPT ![c] = escape(text[c])]
    /\ pc' = [pc EXCEPT ![c] = "compose"]
    /\ UNCHANGED <<normalizer_fst, text, lattice, shortest_path, result,
                   round, previous, tie_break>>

\* Compose that stores the lattice in place of the shared transducer.
Compose_in_place(c) ==
    /\ pc[c] = "compose"
    /\ lattice' = [lattice EXCEPT
                     ![c] = compose(string_compile(input_fst[c]), normalizer_fst)]
    /\ normalizer_fst' = [normalizer_fst EXCEPT !.tau = "lattice"]
    /\ pc' = [pc EXCEPT ![c] = "shortestpath"]
    /\ UNCHANGED <<text, input_fst, shortest_path, result,
                   round, previous, tie_break>>

Compose(c) ==
    /\ pc[c] = "compose"
    /\ lattice' = [lattice EXCEPT
                     ![c] = compose(string_compile(input_fst[c]), normalizer_fst)]
    /\ pc' = [pc EXCEPT ![c] = "shortestpath"]
    /\ UNCHANGED <<normalizer_fst, text, input_fst, shortest_path, result,
                   round, previous, tie_break>>

\* pynini.shortestpath keeps one path of least weight; an empty lattice
\* gives an empty result.  Which of several least-weight paths is kept is
\* not fixed by the source, only that the same lattice always gives the
\* same path: tie_break records the path kept for each input seen.
ShortestPath(c) ==
    /\ pc[c] = "shortestpath"
    /\ IF lattice[c] = {}
       THEN /\ shortest_path' = [shortest_path EXCEPT ![c] = {}]
            /\ UNCHANGED tie_break
       ELSE \E p \in least_weight(lattice[c]) :
                /\ text[c] \in DOMAIN tie_break => p = tie_break[text[c]]
                /\ shortest_path' = [shortest_path EXCEPT ![c] = {p}]
                /\ tie_break' = (text[c] :> p) @@ tie_break
    /\ pc' = [pc EXCEPT ![c] = "string"]
    /\ UNCHANGED <<normalizer_fst, text, input_fst, lattice, result,
                   round, previous>>

\* shortest_path.string(): the output string of the single path, or
\* FstOpError when there is none.
String(c) ==
    /\ pc[c] = "string"
    /\ IF shortest_path[c] = {}
       THEN /\ pc' = [pc EXCEPT ![c] = "except"]
            /\ UNCHANGED result
       ELSE /\ result' = [result EXCEPT
                            ![c] = (CHOOSE p \in shortest_path[c] : TRUE)[1]]
            /\ pc' = [pc EXCEPT ![c] = "done"]
    /\ UNCHANGED <<normalizer_fst, text, input_fst, lattice, shortest_path,
                   round, previous, tie_break>>

Except(c) ==
    /\ pc[c] = "except"
    /\ IF caught("FstOpError")
       THEN /\ result' = [result EXCEPT ![c] = text[c]]
            /\ pc' = [pc EXCEPT ![c] = "done"]
       ELSE /\ pc' = [pc EXCEPT ![c] = "raised"]
            /\ UNCHANGED result
    /\ UNCHANGED <<normalizer_fst, text, input_fst, lattice, shortest_path,
                   round, previous, tie_break>>

\* The caller passes the text it got back to normalize_text again.
Call(c) ==
    /\ pc[c] = "done"
    /\ round[c] < MaxRounds
    /\ text' = [text EXCEPT ![c] = result[c]]
    /\ previous' = [previous EXCEPT ![c] = result[c]]
    /\ round' = [round EXCEPT ![c] = @ + 1]
    /\ pc' = [pc EXCEPT ![c] = "call"]
    /\ input_fst' = [input_fst EXCEPT ![c] = <<>>]
    /\ lattice' = [lattice EXCEPT ![c] = {}]
    /\ shortest_path' = [shortest_path EXCEPT ![c] = {}]
    /\ result' = [result EXCEPT ![c] = <<>>]
    /\ UNCHANGED <<normalizer_fst, tie_break>>

\* The steps of the calls in progress, and the calls that follow them.
Next ==
    \E c \in Callers :
        \/ Escape(c)
        \/ Compose(c)
        \/ ShortestPath(c)
        \/ String(c)
        \/ Except(c)
        \/ Call(c)

\* The steps of the calls in progress alone.
NextShared ==
    \E c \in Callers :
        \/ Escape(c)
        \/ Compose(c)
        \/ ShortestPath(c)
        \/ String(c)
        \/ Except(c)

\* ------------------------------------------------------------- inputs
Digit == {"0", "1", "2", "3", "4", "5", "6", "7", "8", "9"}

DigitChar(d) == <<"0", "1", "2", "3", "4", "5", "6", "7", "8", "9">>[d + 1]

\* Canonical decimal form of an integer.
RECURSIVE Decimal(_)
Decimal(v) ==
    IF v < 0 THEN <<"-">> \o Decimal(-v)
    ELSE IF v < 10 THEN <<DigitChar(v)>>
    ELSE Decimal(v \div 10) \o <<DigitChar(v % 10)>>

SeqsOver(S, n) == UNION {[1..k -> S] : k \in 0..n}

CanonTexts == {Decimal(v) : v \in (-MaxVal)..MaxVal}

PadDigit == {"0", "1", "4", "9"}

PadTexts == {<<"0">> \o t : t \in SeqsOver(PadDigit, MaxPadLen - 1) \ {<<>>}}

TextAlphabet == {"0", "1", "2", "-", " ", "a", "["}

ContextTexts == SeqsOver(TextAlphabet, MaxTextLen)

IHave3Dogs == <<"I"," ","h","a","v","e"," ","3"," ","d","o","g","s">>

ExampleTexts ==
    { IHave3Dogs,
      <<"a", "]", "7">>,
      <<"U+0000", "5">>,
      <<"U+00E9", "1", "2">>,
      <<"a", "2", "1", " ", "-", "1", "5", "-">>,
      <<"1", "2", "3", " ", "a", "n", "d", " ", "-", "7">>,
      <<"\\", "4", "0">> }

Inputs == CanonTexts \cup PadTexts \cup ContextTexts \cup ExampleTexts

SharedInputs ==
    { <<"2", "1">>, <<"-", "2", "1">>, <<"0", "0", "4">>, <<"[", "1">> }

Init ==
    /\ normalizer_fst = build_complete_normalizer
    /\ \E t \in Inputs :
          text = [c \in Callers |-> IF c = 1 THEN t ELSE <<>>]
    /\ pc = [c \in Callers |-> IF c = 1 THEN "call" ELSE "idle"]
    /\ input_fst = [c \in Callers |-> <<>>]
    /\ lattice = [c \in Callers |-> {}]
    /\ shortest_path = [c \in Callers |-> {}]
    /\ result = [c \in Callers |-> <<>>]
    /\ previous = [c \in Callers |-> <<>>]
    /\ round = [c \in Callers |-> 1]
    /\ tie_break = <<>>

InitShared ==
    /\ normalizer_fst = build_complete_normalizer
    /\ text \in [Callers -> SharedInputs]
    /\ pc = [c \in Callers |-> "call"]
    /\ input_fst = [c \in Callers |-> <<>>]
    /\ lattice = [c \in Callers |-> {}]
    /\ shortest_path = [c \in Callers |-> {}]
    /\ result = [c \in Callers |-> <<>>]
    /\ previous = [c \in Callers |-> <<>>]
    /\ round = [c \in Callers |-> 1]
    /\ tie_break = <<>>

Spec == Init /\ [][Next]_vars

SpecShared == InitShared /\ [][NextShared]_vars

\* ------------------------------------------------ vocabulary of the claims
Done(c) == pc[c] = "done"

HasDigit(s) == \E i \in 1..Len(s) : s[i] \in Digit

AllDigits(s) == s # <<>> /\ \A i \in 1..Len(s) : s[i] \in Digit

DigitValue(ch) == CHOOSE d \in 0..9 : DigitChar(d) = ch

RECURSIVE NatValue(_)
NatValue(s) ==
    IF s = <<>> THEN 0
    ELSE 10 * NatValue(SubSeq(s, 1, Len(s) - 1)) + DigitValue(s[Len(s)])

\* Canonical decimal form: no leading zero, "-" only before a non-zero
\* number.
CanonicalNat(s) ==
    /\ AllDigits(s)
    /\ Len(s) <= 4
    /\ Len(s) = 1 \/ s[1] # "0"
    /\ NatValue(s) <= MaxVal

Canonical(s) ==
    \/ CanonicalNat(s)
    \/ /\ Len(s) >= 2
       /\ s[1] = "-"
       /\ CanonicalNat(Tail(s))
       /\ NatValue(Tail(s)) # 0

IntValue(s) == IF s[1] = "-" THEN -NatValue(Tail(s)) ELSE NatValue(s)

ZeroPadded(s) == AllDigits(s) /\ Len(s) >= 2 /\ s[1] = "0"

UnitWord ==
    << <<"o","n","e">>,
       <<"t","w","o">>,
       <<"t","h","r","e","e">>,
       <<"f","o","u","r">>,
       <<"f","i","v","e">>,
       <<"s","i","x">>,
       <<"s","e","v","e","n">>,
       <<"e","i","g","h","t">>,
       <<"n","i","n","e">> >>

TeenWord ==
    << <<"t","e","n">>,
       <<"e","l","e","v","e","n">>,
       <<"t","w","e","l","v","e">>,
       <<"t","h","i","r","t","e","e","n">>,
       <<"f","o","u","r","t","e","e","n">>,
       <<"f","i","f","t","e","e","n">>,
       <<"s","i","x","t","e","e","n">>,
       <<"s","e","v","e","n","t","e","e","n">>,
       <<"e","i","g","h","t","e","e","n">>,
       <<"n","i","n","e","t","e","e","n">> >>

TensWord ==
    << <<"t","w","e","n","t","y">>,
       <<"t","h","i","r","t","y">>,
       <<"f","o","r","t","y">>,
       <<"f","i","f","t","y">>,
       <<"s","i","x","t","y">>,
       <<"s","e","v","e","n","t","y">>,
       <<"e","i","g","h","t","y">>,
       <<"n","i","n","e","t","y">> >>

ZeroText == <<"z","e","r","o">>

HundredText == <<" ","h","u","n","d","r","e","d">>

AndText == <<" ","a","n","d"," ">>

ThousandText == <<"o","n","e"," ","t","h","o","u","s","a","n","d">>

MinusText == <<"m","i","n","u","s"," ">>

IHaveThreeDogs ==
    <<"I"," ","h","a","v","e"," ","t","h","r","e","e"," ","d","o","g","s">>

\* The English cardinal reading of an integer of -1000..1000.
RECURSIVE Reading(_)
Reading(v) ==
    IF v < 0 THEN MinusText \o Reading(-v)
    ELSE IF v = 0 THEN ZeroText
    ELSE IF v < 10 THEN UnitWord[v]
    ELSE IF v < 20 THEN TeenWord[v - 9]
    ELSE IF v < 100
         THEN TensWord[(v \div 10) - 1]
                  \o (IF v % 10 = 0 THEN <<>> ELSE <<" ">> \o UnitWord[v % 10])
    ELSE IF v < 1000
         THEN UnitWord[v \div 100] \o HundredText
                  \o (IF v % 100 = 0 THEN <<>> ELSE AndText \o Reading(v % 100))
    ELSE ThousandText

\* The digits of s spelled one by one, one space between two words.
RECURSIVE DigitByDigit(_)
DigitByDigit(s) ==
    IF s = <<>> THEN <<>>
    ELSE (IF s[1] = "0" THEN ZeroText ELSE UnitWord[DigitValue(s[1])])
             \o (IF Len(s) = 1 THEN <<>> ELSE <<" ">> \o DigitByDigit(Tail(s)))

Outputs(paths) == {p[1] : p \in paths}

Accepted(s) == \A i \in 1..Len(s) : s[i] \in safe_printables

\* The path normalize_text kept for caller c.
Selected(c) == CHOOSE p \in shortest_path[c] : TRUE

\* ---------------------------------------------------------------- C1
\* C1: for every integer of -1000..1000 in canonical decimal form,
\* normalize_text returns its English cardinal reading, with no digit left.
C1_CardinalReading ==
    \A c \in Callers :
        Done(c) /\ Canonical(text[c]) =>
            /\ result[c] = Reading(IntValue(text[c]))
            /\ ~HasDigit(result[c])

\* ---------------------------------------------------------------- C2
\* C2: a digit string that starts with "0" and has two or more digits is
\* returned spelled digit by digit: "zero" first with no space before it,
\* one word per digit, exactly one space between two words.
C2_ZeroPaddedSpelling ==
    \A c \in Callers :
        Done(c) /\ ZeroPadded(text[c]) => result[c] = DigitByDigit(text[c])

\* ---------------------------------------------------------------- C3
\* The number of digits s begins with.
RECURSIVE DigitRun(_)
DigitRun(s) ==
    IF s = <<>> \/ Head(s) \notin Digit THEN 0 ELSE 1 + DigitRun(Tail(s))

\* The length of the numeric span s begins with: an optional "-" directly
\* followed by digits, and all the digits that follow; 0 when there is none.
SpanLen(s) ==
    IF s = <<>> THEN 0
    ELSE IF s[1] \in Digit THEN DigitRun(s)
    ELSE IF s[1] = "-" /\ Len(s) >= 2 /\ s[2] \in Digit
         THEN 1 + DigitRun(Tail(s))
    ELSE 0

\* The texts got from s by replacing each numeric span by one of the
\* least-weight expansions of that span alone, every other character kept
\* in place.
RECURSIVE Spliced(_)
Spliced(s) ==
    IF s = <<>> THEN {<<>>}
    ELSE LET n == SpanLen(s)
         IN  IF n = 0
             THEN {<<s[1]>> \o r : r \in Spliced(Tail(s))}
             ELSE {e \o r :
                     e \in Outputs(least_weight(rewrite_paths(SubSeq(s, 1, n)))),
                     r \in Spliced(SubSeq(s, n + 1, Len(s)))}

\* C3: on a text of accepted characters the result is the input with each
\* numeric span replaced by its chosen expansion and every other character
\* unchanged, in order; "I have 3 dogs" gives "I have three dogs".
C3_SurroundingTextKept ==
    \A c \in Callers :
        Done(c) /\ Accepted(text[c]) =>
            /\ result[c] \in Spliced(text[c])
            /\ text[c] = IHave3Dogs => result[c] = IHaveThreeDogs

C3_Witness ==
    /\ Done(1)
    /\ text[1] = <<"1", "2", "3", " ", "a", "n", "d", " ", "-", "7">>
    /\ result[1] = Reading(123) \o <<" ", "a", "n", "d", " ">> \o Reading(-7)

\* ---------------------------------------------------------------- C4
\* C4: normalize_text never raises; it returns a text with every numeric
\* span expanded (no digit left) or, when the text has a character outside
\* the accepted alphabet, the text unchanged.
C4_WholeOrNothing ==
    \A c \in Callers :
        /\ pc[c] # "raised"
        /\ Done(c) =>
              IF Accepted(text[c]) THEN ~HasDigit(result[c])
              ELSE result[c] = text[c]

C4_Witness ==
    /\ Done(1)
    /\ text[1] = <<"a", "]", "7">>
    /\ result[1] = <<"a", "]", "7">>

\* ---------------------------------------------------------------- C5
\* C5: for a positive cardinal span s the grammar accepts, "-" followed by
\* s has exactly the expansions "minus " + e, at the weight of e, for the
\* expansions e of s, and the output selected for "-" + s is "minus "
\* followed by the output selected for s.
C5_MinusPrefix ==
    \A c1, c2 \in Callers :
        ( /\ Done(c1) /\ Done(c2)
          /\ positive_cardinals(text[c1]) # {}
          /\ text[c2] = <<"-">> \o text[c1] ) =>
            /\ final_grammar(text[c2]) =
                   {<<MinusText \o e[1], e[2]>> : e \in positive_cardinals(text[c1])}
            /\ result[c2] = MinusText \o result[c1]

\* ---------------------------------------------------------------- C6
\* C6: normalizing the text a call returned gives that text again, both
\* when the first call rewrote its input and when it returned it unchanged.
C6_Idempotent ==
    \A c \in Callers :
        Done(c) /\ round[c] >= 2 =>
            /\ text[c] = previous[c]
            /\ result[c] = previous[c]

C6_Witness ==
    /\ Done(1)
    /\ round[1] = 2
    /\ previous[1] = IHaveThreeDogs
    /\ result[1] = IHaveThreeDogs

\* ---------------------------------------------------------------- C7
\* C7: under any interleaving of calls normalizer_fst keeps the value it
\* was built with, and two calls on the same text return the same text.
C7_GrammarShared ==
    /\ normalizer_fst = build_complete_normalizer
    /\ \A c1, c2 \in Callers :
           Done(c1) /\ Done(c2) /\ text[c1] = text[c2] => result[c1] = result[c2]

C7_Witness ==
    /\ Done(1) /\ Done(2)
    /\ round[1] = 1 /\ round[2] = 1
    /\ text[1] = <<"2", "1">>
    /\ text[2] = <<"2", "1">>
    /\ result[1] = result[2]

\* ---------------------------------------------------------------- C8
\* C8: for the decimal string of every integer of 0..1000, exactly one
\* output reaches the least total weight over all the ways the rewriter
\* covers the string.
C8_UniqueLeastWeight ==
    \A c \in Callers :
        Done(c) /\ CanonicalNat(text[c]) =>
            Cardinality(Outputs(least_weight(lattice[c]))) = 1

\* ---------------------------------------------------------------- C9
\* A single digit 1-9, with or without "-" before it.
BareDigit(s) ==
    \/ Len(s) = 1 /\ s[1] \in Digit \ {"0"}
    \/ Len(s) = 2 /\ s[1] = "-" /\ s[2] \in Digit \ {"0"}

\* The single-digit rule is the only one with a weight, which is 1, and the
\* selected path carries weight only when no path and no expansion of the
\* whole token has weight 0.
PenaltyOnlyAsLastResort(c) ==
    /\ \A e \in final_grammar(text[c]) :
           e[2] \in {0, 1} /\ (e[2] = 1 => BareDigit(text[c]))
    /\ Selected(c)[2] > 0 =>
           /\ \A q \in lattice[c] : q[2] >= Selected(c)[2]
           /\ \A e \in final_grammar(text[c]) : e[2] > 0

\* C9 as stated: every integer of -1000..1000 in canonical form and every
\* zero-padded digit sequence has an expansion of the whole token of weight
\* 0; only the single-digit rule has weight 1, and the selected output uses
\* it only when no weight-0 expansion covers the token.
C9_ZeroWeightAlways ==
    \A c \in Callers :
        Done(c) /\ (Canonical(text[c]) \/ ZeroPadded(text[c])) =>
            /\ \E e \in final_grammar(text[c]) : e[2] = 0
            /\ PenaltyOnlyAsLastResort(c)

\* C9, amended: the same, except that the integers 1..9 and -9..-1 have one
\* expansion of the whole token only, the single-digit one, of weight 1.
C9_ZeroWeightButBareDigits ==
    \A c \in Callers :
        Done(c) /\ (Canonical(text[c]) \/ ZeroPadded(text[c])) =>
            /\ ~BareDigit(text[c]) => \E e \in final_grammar(text[c]) : e[2] = 0
            /\ BareDigit(text[c]) =>
                   /\ Cardinality(final_grammar(text[c])) = 1
                   /\ \A e \in final_grammar(text[c]) : e[2] = 1
            /\ PenaltyOnlyAsLastResort(c)

C9_Witness ==
    /\ Done(1)
    /\ text[1] = <<"-", "5">>
    /\ final_grammar(text[1]) = {<<Reading(-5), 1>>}
    /\ Selected(1) = <<Reading(-5), 1>>

\* --------------------------------------------------------------- C10
\* C10: the hundreds builder proposes an expansion only for a three-digit
\* span 100-999, the remainder read from its last two digits; it proposes
\* none for a two-digit span.
C10_HundredsThreeDigits ==
    \A c \in Callers :
        Done(c) /\ hundreds(text[c]) # {} =>
            /\ Len(text[c]) = 3
            /\ AllDigits(text[c])
            /\ text[c][1] # "0"
            /\ Outputs(hundreds(text[c])) = {Reading(NatValue(text[c]))}

====
